---- MODULE Spec2Model ----
(***************************************************************************)
(* Repolyzer (src/src/main.rs): the single pass of gather_stats over the   *)
(* commit stream, the derived metrics computed after the pass, the top-N   *)
(* reduction of print_pie_chart and the heat-grid rows of                  *)
(* calculate_day_commit_graph.                                             *)
(*                                                                         *)
(* Number representation.  TLC integers are 32 bits wide, the program's    *)
(* u64/usize are 64 bits wide.  A u64 value v is represented by v itself   *)
(* when v < 2^31 and by v - 2^64 (a negative number) when v >= 2^64 - 2^31;*)
(* no other u64 value arises from the inputs used here.  With this         *)
(* representation the cast `i64 as u64` keeps the number (it keeps the bit *)
(* pattern), wrapping subtraction is integer subtraction, and the places   *)
(* where unsigned arithmetic differs from integer arithmetic are the       *)
(* comparison (U64Lt), the overflow test (U64SubOverflows) and the         *)
(* division by SECONDS_PER_DAY (U64DayNumberMod).                          *)
(***************************************************************************)
EXTENDS Integers, Sequences, FiniteSets, TLC

\* ------------------------------------------------------------ constants
UNKNOWN_AUTHOR == ">UNKNOWN<"
SECONDS_PER_YEAR == 31536000
SECONDS_PER_DAY == 86400
CHECKERBOARD_SYMBOL_AMOUNT == 5
\* stand-ins for the five glyphs: none, low, more, even more, a lot
SYMBOLS == <<"~", ".", ":", "o", "#">>
NAMED_COMMITS_IN_CHART == 5
\* length of commits_per_day_last_year and of commits_per_weekday
DaysInYear == 365
DaysInWeek == 7
\* 2^64 = U64DayQuotMod * ... : (2^64 \div 86400) % 365 and 2^64 % 86400
U64DayQuotMod == 26
U64DayRem == 25216
\* 1970-01-01 is a Thursday: num_days_from_monday() = 3
EpochWeekday == 3

\* ------------------------------------------------------------ bounds
MaxCommits == 3

\* ------------------------------------------------------------ inputs
\* Noon (UTC) of epoch day 20074 = 2024-12-17, a Tuesday; 20074 % 365 = 364.
ClockNoon == (54 * DaysInYear + 364) * SECONDS_PER_DAY + 43200
CurrentTimes == {ClockNoon}

\* commit.time().seconds() is an i64
CommitSeconds ==
    { ClockNoon - 60,                       \* today
      ClockNoon - 43200 - 60,               \* yesterday, less than a day before
      ClockNoon - 2 * SECONDS_PER_YEAR,     \* two years ago
      100,                                  \* 1970-01-01T00:01:40Z
      0 - 60 }                              \* 1969-12-31T23:59:00Z

\* diff against the first parent: deltas().count(), insertions(), deletions()
Diffs == { [files |-> 2, insertions |-> 3, deletions |-> 10] }

AuthorNames == {"alice"}

\* Option<T>: <<>> is None, <<x>> is Some(x)
Option(S) == {<<>>} \cup {<<x>> : x \in S}

Commits == [author : Option(AuthorNames), seconds : CommitSeconds, parent : Option(Diffs)]

\* ------------------------------------------------------------ state
VARIABLES
    app_args,           \* the flags gather_stats reads
    current_time,       \* `current_time`, captured once before the pass
    stats,              \* RepositoryStats
    prev_commit_time,   \* local of gather_stats
    current_streak,     \* local of gather_stats
    max_streak_seen,    \* history: the largest value current_streak has held in the pass
    pc,                 \* position in the program
    symbol_dist,        \* print_commit_checker_board: `distribution`
    row,                \* print_commit_checker_board: rows printed so far
    today,              \* calculate_day_commit_graph: weekday of `today`, 0 = Monday
    weekday,            \* calculate_day_commit_graph: `weekday`, 0 = Monday
    num_of_weekdays,    \* calculate_day_commit_graph: local
    i,                  \* calculate_day_commit_graph: index of the second loop
    day_index,          \* calculate_day_commit_graph: local
    graph_line,         \* calculate_day_commit_graph: local, the returned string
    iter_order,         \* print_pie_chart: the order contributors.iter() yields
    top_contributors,   \* print_pie_chart: local
    others,             \* print_pie_chart: local
    lines_delta         \* print_extended_overview: the printed line delta

gatherVars == <<app_args, current_time, stats, prev_commit_time,
                current_streak, max_streak_seen>>
boardVars == <<symbol_dist, row, today, weekday, num_of_weekdays, i, day_index,
               graph_line>>
pieVars == <<iter_order, top_contributors, others>>
overviewVars == <<lines_delta>>
vars == <<gatherVars, pc, boardVars, pieVars, overviewVars>>

\* ------------------------------------------------------------ u64 arithmetic
U64Lt(a, b) == IF (a < 0) = (b < 0) THEN a < b ELSE b < 0
U64Gt(a, b) == U64Lt(b, a)
\* a - b on u64 overflows when a < b
U64SubOverflows(a, b) == U64Lt(a, b)
U64Sub(a, b) == a - b
\* (v / SECONDS_PER_DAY) % 365 on u64
U64DayNumberMod(v) ==
    IF v >= 0 THEN (v \div SECONDS_PER_DAY) % DaysInYear
    ELSE (U64DayQuotMod + ((U64DayRem + v) \div SECONDS_PER_DAY)) % DaysInYear

\* ------------------------------------------------------------ gather_stats
EmptyStats ==
    [ commit_count |-> 0,
      last_commit |-> 0,
      contributors |-> <<>>,
      total_files_changes |-> 0,
      total_lines_inserted |-> 0,
      total_lines_removed |-> 0,
      commits_last_year |-> 0,
      longest_commit_streak |-> 0,
      current_commit_streak |-> 0,
      max_commits_a_day |-> 0,
      commits_per_day_last_year |-> [d \in 0..(DaysInYear - 1) |-> 0],
      commits_per_weekday |-> [d \in 0..(DaysInWeek - 1) |-> 0] ]

\* commit.author().name() or UNKNOWN_AUTHOR
AuthorName(c) == IF c.author = <<>> THEN UNKNOWN_AUTHOR ELSE c.author[1]

\* commit.time().seconds() as u64
CommitTime(c) == c.seconds

\* mutant of AddContributor: insert(author, 1), the count kept so far is lost
AddContributorOverwrite(contributors, author) ==
    [n \in DOMAIN contributors \cup {author} |->
        IF n = author THEN 1 ELSE contributors[n]]

\* entry(author).or_insert(0); insert(author, get(author) + 1)
AddContributor(contributors, author) ==
    LET inserted == IF author \in DOMAIN contributors THEN contributors
                    ELSE [n \in DOMAIN contributors \cup {author} |->
                            IF n = author THEN 0 ELSE contributors[n]]
    IN [inserted EXCEPT ![author] = inserted[author] + 1]

\* commit_count, contributors, last_commit
BaseStats(st, c) ==
    [st EXCEPT !.commit_count = @ + 1,
               !.contributors = AddContributor(@, AuthorName(c)),
               !.last_commit = IF U64Lt(@, CommitTime(c)) THEN CommitTime(c) ELSE @]

\* the diff totals of a commit that has a parent
ChurnStats(st, diff) ==
    [st EXCEPT !.total_files_changes = @ + diff.files,
               !.total_lines_inserted = @ + diff.insertions,
               !.total_lines_removed = @ + diff.deletions]

DayOfYear(commit_time) == U64DayNumberMod(commit_time)

\* commits per day of the last year
BucketStats(st, commit_time, now) ==
    IF U64Gt(commit_time, U64Sub(now, SECONDS_PER_YEAR))
    THEN [st EXCEPT !.commits_per_day_last_year[DayOfYear(commit_time)] = @ + 1]
    ELSE st

\* the streak step of the pass
StreakStep(g, commit_time) ==
    IF g.prev_commit_time # 0
       /\ U64Gt(commit_time, U64Sub(g.prev_commit_time, SECONDS_PER_DAY))
    THEN [g EXCEPT !.current_streak = @ + 1]
    ELSE [g EXCEPT !.stats.current_commit_streak =
                        IF g.current_streak > g.stats.longest_commit_streak
                        THEN g.current_streak ELSE @,
                   !.current_streak = 0,
                   !.prev_commit_time = commit_time]

\* the `if app_args.commit_graph` block of the loop; a subtraction that
\* overflows panics when the build checks overflow and wraps otherwise
GraphStats(g, commit_time, now, checks) ==
    IF checks /\ U64SubOverflows(now, SECONDS_PER_YEAR)
    THEN [g EXCEPT !.panicked = TRUE]
    ELSE LET g1 == [g EXCEPT !.stats = BucketStats(@, commit_time, now)]
         IN IF checks /\ g1.prev_commit_time # 0
               /\ U64SubOverflows(g1.prev_commit_time, SECONDS_PER_DAY)
            THEN [g1 EXCEPT !.panicked = TRUE]
            ELSE StreakStep(g1, commit_time)

\* DT::from_timestamp(commit_time as i64, 0).weekday().num_days_from_monday()
Weekday(commit_time) == ((commit_time \div SECONDS_PER_DAY) + EpochWeekday) % DaysInWeek

WeekdayStats(st, commit_time) ==
    [st EXCEPT !.commits_per_weekday[Weekday(commit_time)] = @ + 1]

\* one iteration of `for commit_id in revwalk`
LoopBody(g, c, args, now, checks) ==
    LET commit_time == CommitTime(c)
        g1 == [g EXCEPT !.stats = BaseStats(@, c)]
    IN IF args.extended_overview /\ c.parent = <<>>
       THEN g1                                               \* continue
       ELSE LET g2 == IF args.extended_overview
                      THEN [g1 EXCEPT !.stats = ChurnStats(@, c.parent[1])]
                      ELSE g1
                g3 == IF args.commit_graph
                      THEN GraphStats(g2, commit_time, now, checks)
                      ELSE g2
            IN IF g3.panicked THEN g3
               ELSE IF args.weekday_stats
                    THEN [g3 EXCEPT !.stats = WeekdayStats(@, commit_time)]
                    ELSE g3

\* The loops `for i in 0..365` run in index order.  The range is split in
\* halves, and the result of the first half is evaluated before the second
\* half starts, only to keep TLC's evaluation shallow.
Evaluated(v) == v = v

RECURSIVE MaxLoop(_, _, _, _)
\* commits_per_day_last_year.iter().max(), m the maximum so far
MaxLoop(arr, lo, hi, m) ==
    IF lo >= hi THEN m
    ELSE IF hi = lo + 1 THEN (IF arr[lo] > m THEN arr[lo] ELSE m)
    ELSE LET mid == (lo + hi) \div 2
             first == MaxLoop(arr, lo, mid, m)
         IN IF Evaluated(first) THEN MaxLoop(arr, mid, hi, first) ELSE first

RECURSIVE SumLoop(_, _, _, _)
\* for i in 0..365 { commits_last_year += commits_per_day_last_year[i] }
SumLoop(arr, lo, hi, acc) ==
    IF lo >= hi THEN acc
    ELSE IF hi = lo + 1 THEN acc + arr[lo]
    ELSE LET mid == (lo + hi) \div 2
             first == SumLoop(arr, lo, mid, acc)
         IN IF Evaluated(first) THEN SumLoop(arr, mid, hi, first) ELSE first

\* the body of the longest-streak loop on <<current_streak, longest_commit_streak>>
LongestStreakBody(arr, d, sl) ==
    IF arr[d] > 0
    THEN <<sl[1] + 1, sl[2]>>
    ELSE <<0, IF sl[1] > sl[2] THEN sl[1] ELSE sl[2]>>

RECURSIVE LongestStreakLoop(_, _, _, _)
\* for i in 0..365 { ... } on <<current_streak, longest_commit_streak>>
LongestStreakLoop(arr, lo, hi, sl) ==
    IF lo >= hi THEN sl
    ELSE IF hi = lo + 1 THEN LongestStreakBody(arr, lo, sl)
    ELSE LET mid == (lo + hi) \div 2
             first == LongestStreakLoop(arr, lo, mid, sl)
         IN IF Evaluated(first) THEN LongestStreakLoop(arr, mid, hi, first) ELSE first

\* mutant of DerivedStats: the sum runs over 0..364 instead of 0..365
DerivedStatsShortSum(g) ==
    LET arr == g.stats.commits_per_day_last_year
        run == LongestStreakLoop(arr, 0, DaysInYear, <<0, g.stats.longest_commit_streak>>)
    IN [g EXCEPT !.stats.max_commits_a_day = MaxLoop(arr, 0, DaysInYear, 0),
                 !.stats.commits_last_year = SumLoop(arr, 0, DaysInYear - 1, @),
                 !.stats.longest_commit_streak = run[2],
                 !.current_streak = run[1]]

\* the `if app_args.commit_graph` block after the loop
DerivedStats(g) ==
    LET arr == g.stats.commits_per_day_last_year
        run == LongestStreakLoop(arr, 0, DaysInYear, <<0, g.stats.longest_commit_streak>>)
    IN [g EXCEPT !.stats.max_commits_a_day = MaxLoop(arr, 0, DaysInYear, 0),
                 !.stats.commits_last_year = SumLoop(arr, 0, DaysInYear, @),
                 !.stats.longest_commit_streak = run[2],
                 !.current_streak = run[1]]

Locals == [stats |-> stats, prev_commit_time |-> prev_commit_time,
           current_streak |-> current_streak, panicked |-> FALSE]

\* ------------------------------------------------------------ actions
\* print_commit_checker_board and print_pie_chart have not been called
BoardIdle ==
    /\ symbol_dist = <<>>
    /\ row = 0
    /\ today = 0
    /\ weekday = 0
    /\ num_of_weekdays = 0
    /\ i = 0
    /\ day_index = 0
    /\ graph_line = <<>>

PieIdle ==
    /\ iter_order = <<>>
    /\ top_contributors = <<>>
    /\ others = 0

\* print_extended_overview has not been called
OverviewIdle == lines_delta = 0

Init ==
    /\ app_args \in [extended_overview : BOOLEAN, commit_graph : BOOLEAN,
                     weekday_stats : BOOLEAN]
    /\ current_time \in CurrentTimes
    /\ stats = EmptyStats
    /\ prev_commit_time = 0
    /\ current_streak = 0
    /\ max_streak_seen = 0
    /\ pc = "loop"
    /\ BoardIdle
    /\ PieIdle
    /\ OverviewIdle

\* revwalk yields commit c and the loop body runs on it; overflow_checks is
\* the build's setting: TRUE panics on an overflowing subtraction, FALSE wraps
ProcessCommit(c, overflow_checks) ==
    /\ pc = "loop"
    /\ stats.commit_count < MaxCommits
    /\ LET g == LoopBody(Locals, c, app_args, current_time, overflow_checks)
       IN /\ stats' = g.stats
          /\ prev_commit_time' = g.prev_commit_time
          /\ current_streak' = g.current_streak
          /\ max_streak_seen' = IF g.current_streak > max_streak_seen
                                THEN g.current_streak ELSE max_streak_seen
          /\ pc' = IF g.panicked THEN "panic" ELSE "loop"
    /\ UNCHANGED <<app_args, current_time, boardVars, pieVars, overviewVars>>

\* revwalk is exhausted: the derived metrics, then gather_stats returns
FinishGather ==
    /\ pc = "loop"
    /\ LET g == IF app_args.commit_graph THEN DerivedStats(Locals) ELSE Locals
       IN /\ stats' = g.stats
          /\ current_streak' = g.current_streak
    /\ pc' = "done"
    /\ UNCHANGED <<app_args, current_time, prev_commit_time, max_streak_seen,
                   boardVars, pieVars, overviewVars>>

\* main calls print_extended_overview when extended_overview is set; the
\* line delta is a usize subtraction: an overflowing one panics in a build
\* with overflow checks and wraps in one without
PrintExtendedOverview(overflow_checks) ==
    /\ pc = "done"
    /\ app_args.extended_overview
    /\ IF overflow_checks
          /\ U64SubOverflows(stats.total_lines_inserted, stats.total_lines_removed)
       THEN /\ pc' = "panic"
            /\ UNCHANGED lines_delta
       ELSE /\ pc' = "overview"
            /\ lines_delta' = U64Sub(stats.total_lines_inserted,
                                     stats.total_lines_removed)
    /\ UNCHANGED <<gatherVars, boardVars, pieVars>>

Next ==
    \/ \E c \in Commits, overflow_checks \in BOOLEAN : ProcessCommit(c, overflow_checks)
    \/ FinishGather
    \/ \E overflow_checks \in BOOLEAN : PrintExtendedOverview(overflow_checks)

Spec == Init /\ [][Next]_vars

\* ------------------------------------------------------------ print_commit_checker_board
\* bound: the largest number of commits on one day of the arrays drawn
MaxPerDay == 11

\* commits_per_day_last_year as gather_stats may leave it: day i holds
\* (i * step) % (peak + 1) commits, plus `base` commits on every day
BoardArrays ==
    { [d \in 0..(DaysInYear - 1) |-> base + ((d * step) % (peak + 1))] :
        peak \in 0..MaxPerDay, step \in {1, 3}, base \in {0, 1} }

\* the state gather_stats returns for a commit graph with the array arr
StatsOfArray(arr) ==
    DerivedStats([stats |-> [EmptyStats EXCEPT !.commits_per_day_last_year = arr,
                                               !.commit_count = SumLoop(arr, 0, DaysInYear, 0)],
                  prev_commit_time |-> 0, current_streak |-> 0, panicked |-> FALSE]).stats

\* mutant of SymbolDistribution: the range is a fourth of the maximum
SymbolDistributionFourRanges(st) ==
    LET max_commits_a_day == MaxLoop(st.commits_per_day_last_year, 0, DaysInYear, 0)
        range_size == max_commits_a_day \div (CHECKERBOARD_SYMBOL_AMOUNT - 1)
    IN <<0, range_size, range_size * 2, range_size * 3, range_size * 4>>

\* calculate_symbol_distribution
SymbolDistribution(st) ==
    LET max_commits_a_day == MaxLoop(st.commits_per_day_last_year, 0, DaysInYear, 0)
        range_size == max_commits_a_day \div CHECKERBOARD_SYMBOL_AMOUNT
    IN <<0, range_size, range_size * 2, range_size * 3, range_size * 4>>

\* (today - chrono::Duration::days(n)).weekday(), as num_days_from_monday()
WeekdayBefore(day, n) == (day - n) % DaysInWeek

\* mutant of CountWeekdays: the loop runs over 0..364 instead of 0..365
CountWeekdaysShort(day, wd) ==
    Cardinality({n \in 0..(DaysInYear - 2) : WeekdayBefore(day, n) = wd})

\* the first loop of calculate_day_commit_graph
CountWeekdays(day, wd) ==
    Cardinality({n \in 0..(DaysInYear - 1) : WeekdayBefore(day, n) = wd})

RECURSIVE FirstSymbol(_, _, _)
\* for j in 0..symbol_dist.len() { if commits_on_day <= symbol_dist[j] { ...; break } }
\* with j counted from 1; " " when no j matches
FirstSymbol(commits_on_day, dist, j) ==
    IF j > Len(dist) THEN " "
    ELSE IF commits_on_day <= dist[j] THEN SYMBOLS[j]
    ELSE FirstSymbol(commits_on_day, dist, j + 1)

\* the symbol of a day
SymbolFor(commits_on_day, dist) ==
    LET symbol == FirstSymbol(commits_on_day, dist, 1)
    IN IF symbol = " " THEN SYMBOLS[Len(SYMBOLS)] ELSE symbol

\* 7 * i + weekday.num_days_from_monday()
DayIndex(k, wd) == 7 * k + wd

\* the state after gather_stats returned with commit_graph set
InitBoard ==
    /\ app_args \in [extended_overview : {FALSE}, commit_graph : {TRUE},
                     weekday_stats : {FALSE}]
    /\ current_time \in CurrentTimes
    /\ stats \in {StatsOfArray(arr) : arr \in BoardArrays}
    /\ prev_commit_time = 0
    /\ current_streak = 0
    /\ max_streak_seen = 0
    /\ pc = "done"
    /\ BoardIdle
    /\ PieIdle
    /\ OverviewIdle

\* print_commit_checker_board up to its first row
CalculateSymbolDistribution ==
    /\ pc = "done"
    /\ app_args.commit_graph
    /\ symbol_dist' = SymbolDistribution(stats)
    /\ pc' = "board"
    /\ UNCHANGED <<gatherVars, row, today, weekday, num_of_weekdays, i, day_index,
                   graph_line, pieVars, overviewVars>>

\* the call of calculate_day_commit_graph for the next row, up to its second loop
CallDayCommitGraph(now_weekday) ==
    /\ pc = "board"
    /\ row < DaysInWeek
    /\ weekday' = row
    /\ today' = now_weekday
    /\ num_of_weekdays' = CountWeekdays(now_weekday, row)
    /\ i' = 0
    /\ graph_line' = <<>>
    /\ pc' = "graph"
    /\ UNCHANGED <<gatherVars, symbol_dist, row, day_index, pieVars, overviewVars>>

\* one iteration of `for i in 0..num_of_weekdays`
GraphLoopStep ==
    /\ pc = "graph"
    /\ i < num_of_weekdays
    /\ day_index' = DayIndex(i, weekday)
    /\ IF day_index' >= DaysInYear
       THEN /\ pc' = "board"                                  \* break, return
            /\ row' = row + 1
            /\ UNCHANGED <<i, graph_line>>
       ELSE /\ graph_line' = graph_line \o
                 <<" ", SymbolFor(stats.commits_per_day_last_year[day_index'], symbol_dist)>>
            /\ i' = i + 1
            /\ UNCHANGED <<pc, row>>
    /\ UNCHANGED <<gatherVars, symbol_dist, today, weekday, num_of_weekdays, pieVars, overviewVars>>

\* the loop is exhausted: the row is returned and printed
ReturnGraphLine ==
    /\ pc = "graph"
    /\ i >= num_of_weekdays
    /\ pc' = "board"
    /\ row' = row + 1
    /\ UNCHANGED <<gatherVars, symbol_dist, today, weekday, num_of_weekdays, i,
                   day_index, graph_line, pieVars, overviewVars>>

NextBoard ==
    \/ CalculateSymbolDistribution
    \/ \E now_weekday \in 0..(DaysInWeek - 1) : CallDayCommitGraph(now_weekday)
    \/ GraphLoopStep
    \/ ReturnGraphLine

SpecBoard == InitBoard /\ [][NextBoard]_vars

\* ------------------------------------------------------------ print_pie_chart
\* bounds: the number of contributors and the commits of one contributor
MaxContributors == 6
MaxCommitsEach == 2

ContributorPool == <<"alice", "bob", "carol", "dave", "erin", "frank", "grace", "heidi">>

\* contributors as gather_stats may leave it: the first n names of the pool,
\* each with at least one commit
ContributorMaps ==
    UNION { [{ContributorPool[k] : k \in 1..n} -> 1..MaxCommitsEach] :
              n \in 0..MaxContributors }

RECURSIVE SomeOrder(_)
\* the elements of a set, in some order
SomeOrder(keys) ==
    IF keys = {} THEN <<>>
    ELSE LET k == CHOOSE x \in keys : TRUE
         IN <<k>> \o SomeOrder(keys \ {k})

\* the orders in which a HashMap with these keys may be iterated: all of them
IterationOrders(keys) ==
    LET base == SomeOrder(keys)
    IN {[k \in 1..Len(base) |-> perm[base[k]]] : perm \in Permutations(keys)}

RECURSIVE SumOfValuesIn(_, _)
SumOfValuesIn(f, keys) ==
    IF keys = {} THEN 0
    ELSE LET k == CHOOSE x \in keys : TRUE
         IN f[k] + SumOfValuesIn(f, keys \ {k})

\* the state gather_stats returns for these contributors without optional statistics
StatsOfContributors(contributors) ==
    [EmptyStats EXCEPT !.contributors = contributors,
                       !.commit_count = SumOfValuesIn(contributors, DOMAIN contributors)]

RECURSIVE InsertDescending(_, _)
\* place entry e after every entry of the sorted sequence that does not
\* compare greater under |a, b| b.1.cmp(a.1)
InsertDescending(sorted, e) ==
    IF sorted = <<>> THEN <<e>>
    ELSE IF Head(sorted)[2] >= e[2]
         THEN <<Head(sorted)>> \o InsertDescending(Tail(sorted), e)
         ELSE <<e>> \o sorted

RECURSIVE SortDescending(_, _)
\* top_contributors.sort_by(|a, b| b.1.cmp(a.1)), a stable sort
SortDescending(entries, sorted) ==
    IF entries = <<>> THEN sorted
    ELSE SortDescending(Tail(entries), InsertDescending(sorted, Head(entries)))

\* top_contributors.truncate(n)
Truncate(entries, n) == SubSeq(entries, 1, IF Len(entries) < n THEN Len(entries) ELSE n)

RECURSIVE SumSkipping(_, _, _)
\* for (_, commits) in contributors.iter().skip(n) { others += commits }
SumSkipping(contributors, order, n) ==
    IF Len(order) <= n THEN 0
    ELSE contributors[order[n + 1]] + SumSkipping(contributors, order, n + 1)

\* the vector print_pie_chart charts, for the iteration order `order`
TopContributors(contributors, order) ==
    LET collected == [k \in 1..Len(order) |-> <<order[k], contributors[order[k]]>>]
        top == Truncate(SortDescending(collected, <<>>), NAMED_COMMITS_IN_CHART)
        rest == SumSkipping(contributors, order, NAMED_COMMITS_IN_CHART)
    IN IF rest > 0 THEN Append(top, <<"Others", rest>>) ELSE top

\* the state after gather_stats returned with pie_chart set
InitPie ==
    /\ app_args \in [extended_overview : {FALSE}, commit_graph : {FALSE},
                     weekday_stats : {FALSE}]
    /\ current_time \in CurrentTimes
    /\ stats \in {StatsOfContributors(m) : m \in ContributorMaps}
    /\ prev_commit_time = 0
    /\ current_streak = 0
    /\ max_streak_seen = 0
    /\ pc = "done"
    /\ BoardIdle
    /\ PieIdle
    /\ OverviewIdle

\* print_pie_chart; order is the order both calls of contributors.iter() yield
PrintPieChart(order) ==
    /\ pc = "done"
    /\ iter_order' = order
    /\ top_contributors' = TopContributors(stats.contributors, order)
    /\ others' = SumSkipping(stats.contributors, order, NAMED_COMMITS_IN_CHART)
    /\ pc' = "pie_done"
    /\ UNCHANGED <<gatherVars, boardVars, overviewVars>>

NextPie ==
    /\ pc = "done"
    /\ \E order \in IterationOrders(DOMAIN stats.contributors) : PrintPieChart(order)

SpecPie == InitPie /\ [][NextPie]_vars

\* ------------------------------------------------------------ properties
RECURSIVE SumOfValues(_)
\* the sum of the values of a map
SumOfValues(f) ==
    IF DOMAIN f = {} THEN 0
    ELSE LET k == CHOOSE x \in DOMAIN f : TRUE
         IN f[k] + SumOfValues([n \in DOMAIN f \ {k} |-> f[n]])

RECURSIVE ArraySum(_, _, _)
\* arr[lo] + ... + arr[hi]
ArraySum(arr, lo, hi) ==
    IF lo > hi THEN 0
    ELSE IF lo = hi THEN arr[lo]
    ELSE LET mid == (lo + hi) \div 2
         IN ArraySum(arr, lo, mid) + ArraySum(arr, mid + 1, hi)

\* the largest entry of arr
ArrayMax(arr) ==
    LET entries == {arr[d] : d \in DOMAIN arr}
    IN CHOOSE m \in entries : \A x \in entries : x <= m

\* the length of the longest contiguous span of indices with nonzero count
LongestRun(arr) ==
    LET nonzero == {d \in DOMAIN arr : arr[d] > 0}
        lengths == {p[2] - p[1] + 1 : p \in
                       {q \in nonzero \X nonzero : q[1] <= q[2]
                                                   /\ (q[1]..q[2]) \subseteq nonzero}}
    IN IF nonzero = {} THEN 0
       ELSE CHOOSE m \in lengths : \A x \in lengths : x <= m

\* C1: after every processed commit the values of contributors sum to
\* commit_count, and a commit without an author name adds one to the count
\* kept under UNKNOWN_AUTHOR.
C1_ContributorsSum ==
    /\ [](SumOfValues(stats.contributors) = stats.commit_count)
    /\ [][\A c \in Commits, k \in BOOLEAN :
            (ProcessCommit(c, k) /\ c.author = <<>>) =>
                /\ UNKNOWN_AUTHOR \in DOMAIN stats'.contributors
                /\ stats'.contributors[UNKNOWN_AUTHOR] =
                     (IF UNKNOWN_AUTHOR \in DOMAIN stats.contributors
                      THEN stats.contributors[UNKNOWN_AUTHOR] ELSE 0) + 1]_vars

\* C1 witness: named and unnamed commits have both been counted
C1_Witness ==
    /\ stats.commit_count = 3
    /\ DOMAIN stats.contributors = {"alice", UNKNOWN_AUTHOR}
    /\ stats.contributors[UNKNOWN_AUTHOR] = 2

\* C2: with weekday statistics enabled, whatever the other flags, at the end
\* of gather_stats the 7 entries of commits_per_weekday sum to commit_count.
C2_WeekdaySum ==
    (pc = "done" /\ app_args.weekday_stats) =>
        ArraySum(stats.commits_per_weekday, 0, DaysInWeek - 1) = stats.commit_count

\* C3: with churn statistics enabled, a commit without a parent updates its
\* calendar-day bucket, the streak tracking and its weekday slot exactly as the
\* loop body does with churn statistics disabled.
C3_RootCommitSkipsOnlyChurn ==
    [][\A c \in Commits, k \in BOOLEAN :
        (ProcessCommit(c, k) /\ app_args.extended_overview /\ c.parent = <<>>) =>
            LET g == LoopBody(Locals, c, [app_args EXCEPT !.extended_overview = FALSE],
                              current_time, k)
            IN /\ stats'.commits_per_day_last_year = g.stats.commits_per_day_last_year
               /\ stats'.commits_per_weekday = g.stats.commits_per_weekday
               /\ stats'.current_commit_streak = g.stats.current_commit_streak
               /\ current_streak' = g.current_streak
               /\ prev_commit_time' = g.prev_commit_time]_vars

\* C5: with calendar bucketing enabled, after gather_stats
\* longest_commit_streak is the length of the longest contiguous span of
\* indices 0..364 whose counts are all nonzero.
C5_LongestStreak ==
    (pc = "done" /\ app_args.commit_graph) =>
        stats.longest_commit_streak = LongestRun(stats.commits_per_day_last_year)

\* C6: with calendar bucketing enabled, at the end of the pass
\* current_commit_streak is the largest value the running streak counter held
\* at any point of the pass, a streak still running at the end included.
C6_CurrentStreakIsMaximum ==
    (pc = "done" /\ app_args.commit_graph) =>
        stats.current_commit_streak = max_streak_seen

\* C7: with calendar bucketing enabled, at the end of gather_stats
\* commits_last_year is the sum of the 365 entries of
\* commits_per_day_last_year and at most commit_count, and max_commits_a_day
\* is the largest entry.
C7_YearTotals ==
    (pc = "done" /\ app_args.commit_graph) =>
        /\ stats.commits_last_year =
              ArraySum(stats.commits_per_day_last_year, 0, DaysInYear - 1)
        /\ stats.commits_last_year <= stats.commit_count
        /\ stats.max_commits_a_day = ArrayMax(stats.commits_per_day_last_year)

\* C7 witness: two commits of three fell on the same day of the last year
C7_Witness ==
    /\ pc = "done"
    /\ app_args.commit_graph
    /\ stats.commit_count = 3
    /\ stats.commits_last_year = 2
    /\ stats.max_commits_a_day = 2

\* the number of columns of the row calculate_day_commit_graph built
Columns == Len(graph_line) \div 2

\* the boundary index of a day with `count` commits: the lowest n in 0..4
\* with count <= n * (max \div 5), or 4 when there is none
ExpectedLevel(count, max) ==
    LET matching == {n \in 0..4 : count <= n * (max \div 5)}
    IN IF matching = {} THEN 4
       ELSE CHOOSE n \in matching : \A m \in matching : n <= m

\* C8: every rendered day has the symbol of the lowest boundary index whose
\* boundary its count does not exceed, or of the highest level; with
\* max_commits_a_day < 5 a nonzero day has the highest level and a zero day
\* level 0.
C8_SymbolLevels ==
    \A k \in 1..Columns :
        LET count == stats.commits_per_day_last_year[7 * (k - 1) + weekday]
        IN /\ graph_line[2 * k - 1] = " "
           /\ graph_line[2 * k] =
                 SYMBOLS[ExpectedLevel(count, stats.max_commits_a_day) + 1]
           /\ stats.max_commits_a_day < 5 =>
                 graph_line[2 * k] = (IF count = 0 THEN SYMBOLS[1] ELSE SYMBOLS[5])

\* C8 witness: a finished row that shows all five levels
C8_Witness ==
    /\ pc = "board"
    /\ row > 0
    /\ stats.max_commits_a_day >= 5
    /\ {graph_line[2 * k] : k \in 1..Columns} = {SYMBOLS[n] : n \in 1..5}

\* the calendar dates with weekday wd among the 365 days ending on a day
\* whose weekday is `day`
DatesInWindow(wd, day) ==
    Cardinality({n \in 0..364 : (day - n) % 7 = wd})

\* C10 as claimed: every finished row has as many columns as there are dates
\* of its weekday among the 365 days ending today.
C10_ColumnsEqualDates ==
    (pc = "board" /\ row > 0) => Columns = DatesInWindow(weekday, today)

\* C10 as amended: the row has that many columns, 52 or 53, except that the
\* row of today's weekday, when today is not a Monday, has one column less.
C10_ColumnsUpToIndexLimit ==
    (pc = "board" /\ row > 0) =>
        /\ DatesInWindow(weekday, today) \in {52, 53}
        /\ Columns = IF weekday = today /\ weekday # 0
                     THEN DatesInWindow(weekday, today) - 1
                     ELSE DatesInWindow(weekday, today)

\* C10 witness: the finished row of today's weekday, a Wednesday
C10_Witness ==
    /\ pc = "board"
    /\ row = 3
    /\ weekday = 2
    /\ today = 2
    /\ Columns = 52

\* C4: the chart shows the 5 contributors with the highest counts, then
\* "Others" with the sum of the counts of all other contributors, present
\* only when that sum is positive; the counts shown sum to commit_count.
C4_TopFiveAndOthers ==
    pc = "pie_done" =>
        LET contributors == stats.contributors
            n == Cardinality(DOMAIN contributors)
            named_count == IF n < 5 THEN n ELSE 5
            named == {top_contributors[k][1] : k \in 1..named_count}
            rest == DOMAIN contributors \ named
            rest_sum == SumOfValuesIn(contributors, rest)
        IN /\ Len(top_contributors) >= named_count
           /\ Cardinality(named) = named_count
           /\ named \subseteq DOMAIN contributors
           /\ \A k \in 1..named_count :
                 /\ top_contributors[k][2] = contributors[top_contributors[k][1]]
                 /\ \A r \in rest : contributors[r] <= top_contributors[k][2]
           /\ IF rest_sum > 0
              THEN /\ Len(top_contributors) = named_count + 1
                   /\ top_contributors[named_count + 1] = <<"Others", rest_sum>>
              ELSE Len(top_contributors) = named_count
           /\ n <= 5 => Len(top_contributors) = n
           /\ ArraySum([k \in 1..Len(top_contributors) |-> top_contributors[k][2]],
                       1, Len(top_contributors)) = stats.commit_count

\* C9: every index used to write commits_per_day_last_year is in 0..364,
\* every index used to write commits_per_weekday is in 0..6, every index used
\* to read commits_per_day_last_year for a row is in 0..364, and a
\* calendar-day slot is written only for a commit whose timestamp is greater
\* than current_time minus 365 days.
C9_IndicesAndWindow ==
    /\ [](/\ \A c \in Commits :
               /\ DayOfYear(CommitTime(c)) \in 0..364
               /\ Weekday(CommitTime(c)) \in 0..6
          /\ Columns > 0 => day_index \in 0..364 \/ pc = "board")
    /\ [][\A c \in Commits, k \in BOOLEAN :
            (ProcessCommit(c, k)
             /\ stats'.commits_per_day_last_year # stats.commits_per_day_last_year)
            => c.seconds > current_time - 365 * SECONDS_PER_DAY]_vars

\* the loop body run on commit c gets as far as the streak test of gather_stats
\* and evaluates the right operand of its &&
StreakSubtractionComputed(c, overflow_checks) ==
    /\ app_args.commit_graph
    /\ ~(app_args.extended_overview /\ c.parent = <<>>)
    /\ ~(overflow_checks /\ U64SubOverflows(current_time, SECONDS_PER_YEAR))
    /\ prev_commit_time # 0

\* C11: no unsigned subtraction underflows: print_extended_overview never
\* computes total_lines_inserted - total_lines_removed with
\* total_lines_removed > total_lines_inserted, and gather_stats never computes
\* prev_commit_time - SECONDS_PER_DAY with a nonzero prev_commit_time below
\* 86400.
C11_NoSubtractionUnderflows ==
    [][/\ \A k \in BOOLEAN :
            PrintExtendedOverview(k)
            => ~U64Gt(stats.total_lines_removed, stats.total_lines_inserted)
       /\ \A c \in Commits, k \in BOOLEAN :
            (ProcessCommit(c, k) /\ StreakSubtractionComputed(c, k))
            => ~U64Lt(prev_commit_time, SECONDS_PER_DAY)]_vars

====
